---- MODULE Spec2Model ----
(***************************************************************************)
(* Model of eureka's version-control subsystem (src/git.rs): the Git       *)
(* handle (repo: Option<Repository>), its operations init, checkout_branch,*)
(* add, commit and push, and the credential callback built by              *)
(* with_credentials.  The libgit2 repository store is modelled by the      *)
(* parts the operations read and write: commits, branch references, HEAD,  *)
(* the index entry and the working-tree copy of README.md, the identity    *)
(* configuration and the remote "origin".                                  *)
(***************************************************************************)
EXTENDS Integers, Sequences, FiniteSets, TLC

VARIABLES
    repo,               \* Git.repo: "none" (None) or the path of the opened repository
    disk,               \* the repository stores on disk, one per repository path
    pc,                 \* "idle", "transport" (push waits for the transport),
                        \* "answered" (the callback returned), "aborted" (panic)
    push_branch,        \* branch_name of the push in progress
    tried_sshkey,       \* with_credentials: let mut tried_sshkey
    tried_cred_helper,  \* with_credentials: let mut tried_cred_helper
    tried_default,      \* with_credentials: let mut tried_default
    chal,               \* the last challenge of the push in progress and its answer
    hist,               \* history of the push in progress (attempts, flag reads, ...)
    last                \* the last operation called on the handle and what it returned

vars == <<repo, disk, pc, push_branch, tried_sshkey, tried_cred_helper,
          tried_default, chal, hist, last>>

(***************************************************************************)
(* Bounds of the model.                                                    *)
(***************************************************************************)
MaxCommits == 2
MaxChallenges == 4

(***************************************************************************)
(* Inputs.                                                                 *)
(***************************************************************************)
RepoPaths == {"p1", "p2"}          \* paths that hold a repository store
Paths == RepoPaths \cup {"nowhere"} \* "nowhere": a directory without a store
BranchNames == {"main", "ideas"}
InvalidNames == {"x..y"}           \* not a valid reference name
Subjects == {"idea #1"}
Notes == {1, 2}                    \* README.md: two contents (0 stands for no file)

NoUser == "none"                   \* username: None
Usernames == {NoUser, "git"}
CredentialTypes == {"USERNAME", "SSH_KEY", "USER_PASS_PLAINTEXT", "DEFAULT"}
AllMethods == {"SSH_KEY", "USER_PASS_PLAINTEXT", "DEFAULT"}

\* every challenge a transport can make
AllChallenges ==
    [allowed : SUBSET CredentialTypes, username : Usernames, made : BOOLEAN]

\* the challenges of an ssh remote whose url names the user, or does not
SshChallenges ==
    { [allowed |-> {"SSH_KEY"}, username |-> "git", made |-> TRUE],
      [allowed |-> {"USERNAME"}, username |-> NoUser, made |-> TRUE] }

(***************************************************************************)
(* The repository store.                                                   *)
(***************************************************************************)
BranchExists(r, name) == \E p \in r.refs : p[1] = name

BranchTargets(r, name) == { p[2] : p \in { q \in r.refs : q[1] = name } }

\* the commit refs/heads/<name> points at, 0 when there is no such reference
BranchTarget(r, name) ==
    IF BranchExists(r, name) THEN CHOOSE c \in BranchTargets(r, name) : TRUE ELSE 0

\* repo.head() resolved to a commit; 0 when HEAD is unborn
HeadOid(r) == BranchTarget(r, r.head)

TreeOf(r, oid) == IF oid = 0 THEN 0 ELSE r.commits[oid].tree

\* the store repo_init() of the tests builds: branch main, one commit
\* "initial-msg" with the empty tree, README.md present and untracked
InitialRepo(identity, origin) ==
    [ commits  |-> << [parent |-> 0, msg |-> "initial-msg", tree |-> 0] >>,
      refs     |-> { <<"main", 1>> },
      head     |-> "main",
      index    |-> 0,
      worktree |-> 1,
      identity |-> identity,
      origin   |-> origin,
      remote   |-> {} ]

\* a store with zero commits: HEAD names the unborn branch main, no README.md
EmptyRepo(identity, origin) ==
    [ commits  |-> << >>,
      refs     |-> {},
      head     |-> "main",
      index    |-> 0,
      worktree |-> 0,
      identity |-> identity,
      origin   |-> origin,
      remote   |-> {} ]

NoChallenge == [allowed |-> {}, username |-> NoUser, kind |-> "none", method |-> "none"]

NoHist == [n |-> 0, tries |-> << >>,
           reads |-> [f \in {"sshkey", "cred_helper", "default"} |-> 0],
           uniform |-> TRUE, lenient |-> FALSE, exhausted_before |-> FALSE]

NoPipe == [stage |-> "none", branch |-> "none"]

\* How far the calls so far follow the pipeline of one run: checkout_branch(b)
\* on an open repository whose only commit is the initial one, add(),
\* commit(s), push(b).  Writing the note does not interrupt it.
Pipe(op, arg, res) ==
    LET at == last.pipe.stage
        b == last.pipe.branch
    IN  IF op = "write_note" THEN last.pipe
        ELSE IF res \notin {"ok", "running"} THEN NoPipe
        ELSE IF op = "checkout_branch" /\ Len(disk[repo].commits) = 1
        THEN [stage |-> "checked_out", branch |-> arg]
        ELSE IF op = "add" /\ at = "checked_out" THEN [stage |-> "added", branch |-> b]
        ELSE IF op = "commit" /\ at = "added" THEN [stage |-> "committed", branch |-> b]
        ELSE IF op = "push" /\ res = "running" /\ at = "committed" /\ arg = b
        THEN [stage |-> "pushing", branch |-> b]
        ELSE IF op = "push" /\ res = "ok" /\ at = "pushing"
        THEN [stage |-> "pushed", branch |-> b]
        ELSE NoPipe

\* again: the call before this one was the same call and returned Ok
Result(op, arg, res, oid) ==
    [op |-> op, arg |-> arg, res |-> res, oid |-> oid,
     again |-> (last.op = op /\ last.arg = arg /\ last.res = "ok"),
     pipe |-> Pipe(op, arg, res)]

\* Git::new / Git::default
Init ==
    /\ repo = "none"
    /\ \E identity \in BOOLEAN, origin \in BOOLEAN :
         disk = [p \in RepoPaths |->
                   IF p = "p1" THEN InitialRepo(identity, origin)
                   ELSE EmptyRepo(identity, origin)]
    /\ pc = "idle"
    /\ push_branch = "none"
    /\ tried_sshkey = FALSE
    /\ tried_cred_helper = FALSE
    /\ tried_default = FALSE
    /\ chal = NoChallenge
    /\ hist = NoHist
    /\ last = [op |-> "new", arg |-> "none", res |-> "ok", oid |-> 0, again |-> FALSE,
               pipe |-> NoPipe]

Negotiation == <<push_branch, tried_sshkey, tried_cred_helper, tried_default, chal, hist>>

\* self.repo.as_ref().unwrap() on a handle that holds no repository
Panic(op, arg) ==
    /\ pc' = "aborted"
    /\ last' = Result(op, arg, "panic", 0)
    /\ UNCHANGED <<repo, disk, Negotiation>>

(***************************************************************************)
(* Git::init                                                               *)
(***************************************************************************)
\* git2::Repository::open(path): Ok exactly when path holds a store
RepositoryOpen(path) == path \in RepoPaths

\* mutant: a failed open drops the repository the handle holds
init_repo_reset(path, old) == IF RepositoryOpen(path) THEN path ELSE "none"

\* mutant: a handle that holds a repository keeps it
init_repo_first(path, old) == IF old = "none" /\ RepositoryOpen(path) THEN path ELSE old

\* .map(|repo| self.repo = Some(repo)): self.repo after the call
init_repo(path, old) == IF RepositoryOpen(path) THEN path ELSE old

init(path) ==
    /\ pc = "idle"
    /\ repo' = init_repo(path, repo)
    /\ last' = Result("init", path,
                      IF RepositoryOpen(path) THEN "ok" ELSE "RepoAccessError", 0)
    /\ UNCHANGED <<disk, pc, Negotiation>>

(***************************************************************************)
(* Git::checkout_branch                                                    *)
(***************************************************************************)
\* repo.branch(branch_name, &commit, false): the error code it returns
BranchCreate(r, name) ==
    IF name \notin BranchNames THEN "InvalidSpec"
    ELSE IF BranchExists(r, name) THEN "Exists"
    ELSE "ok"

\* mutant: the "already exists" error is returned like any other
BranchErrorReturnedAlways(code) == code # "ok"

\* mutant: every error of repo.branch is ignored
BranchErrorReturnedNever(code) == FALSE

\* the guard of the match arm that returns the error of repo.branch
BranchErrorReturned(code) == code # "ok" /\ ~(code = "Exists")

\* repo.checkout_tree(&obj, None), the safe strategy.  README.md conflicts
\* when the target changes it against the tree of HEAD and the working tree
\* differs from the tree of HEAD too: when HEAD has the file, unless the
\* working tree already holds the target's content; when HEAD has no such
\* file (the target adds it), whatever the content of the file found there
CheckoutConflict(r, target) ==
    LET b == TreeOf(r, HeadOid(r))
        t == TreeOf(r, target)
    IN  t # b /\ r.worktree # b /\ (b = 0 \/ r.worktree # t)

CheckoutTree(r, target) ==
    LET b == TreeOf(r, HeadOid(r))
        t == TreeOf(r, target)
    IN  IF t = b THEN r ELSE [r EXCEPT !.worktree = t, !.index = t]

\* mutant: HEAD is left where it was
SetHeadSkipped(r, name) == r

\* repo.set_head(refname)
SetHead(r, name) == [r EXCEPT !.head = name]

checkout_branch_on(r, name) ==
    LET commit == HeadOid(r) IN
    IF commit = 0 THEN [r |-> r, res |-> "ReferenceLookupError"]
    ELSE
      LET code == BranchCreate(r, name)
          r1 == IF code = "ok" THEN [r EXCEPT !.refs = @ \cup {<<name, commit>>}] ELSE r
      IN  IF BranchErrorReturned(code) THEN [r |-> r1, res |-> "BranchCreateError"]
          ELSE LET obj == BranchTarget(r1, name) IN
               IF CheckoutConflict(r1, obj) THEN [r |-> r1, res |-> "CheckoutError"]
               ELSE [r |-> SetHead(CheckoutTree(r1, obj), name), res |-> "ok"]

checkout_branch(name) ==
    /\ pc = "idle"
    /\ IF repo = "none" THEN Panic("checkout_branch", name)
       ELSE LET out == checkout_branch_on(disk[repo], name) IN
            /\ disk' = [disk EXCEPT ![repo] = out.r]
            /\ last' = Result("checkout_branch", name, out.res, 0)
            /\ UNCHANGED <<repo, pc, Negotiation>>

(***************************************************************************)
(* Git::add                                                                *)
(***************************************************************************)
\* index.add_path("README.md"), index.write()
add_on(r) ==
    IF r.worktree = 0 THEN [r |-> r, res |-> "IndexError"]
    ELSE [r |-> [r EXCEPT !.index = r.worktree], res |-> "ok"]

add ==
    /\ pc = "idle"
    /\ IF repo = "none" THEN Panic("add", "none")
       ELSE LET out == add_on(disk[repo]) IN
            /\ disk' = [disk EXCEPT ![repo] = out.r]
            /\ last' = Result("add", "none", out.res, 0)
            /\ UNCHANGED <<repo, pc, Negotiation>>

(***************************************************************************)
(* Git::commit                                                             *)
(***************************************************************************)
\* repo.head()?.resolve()?.peel(Commit)?: the commit, 0 for the error
find_last_commit(r) == HeadOid(r)

\* repo.commit(Some("HEAD"), ...): the reference HEAD names is moved
UpdateHead(r, oid) ==
    [r EXCEPT !.refs = { p \in @ : p[1] # r.head } \cup { <<r.head, oid>> }]

\* mutant: the commit is made without parents, as the initial one
CommitParentNone(parent_commit) == 0

\* the parents handed to repo.commit
CommitParent(parent_commit) == parent_commit

\* the message handed to repo.commit
CommitMessage(subject) == subject

\* mutant: a signature is made up when none is configured
signature_default(r) == TRUE

\* repo.signature(): Ok when user.name and user.email are configured
signature(r) == r.identity

\* mutant: the commit is written and HEAD moved before the signature is asked for
commit_on_head_first(r, subject) ==
    LET parent_commit == find_last_commit(r)
        new == Len(r.commits) + 1
        c == [parent |-> parent_commit, msg |-> subject, tree |-> r.index]
        moved == UpdateHead([r EXCEPT !.commits = Append(@, c)], new)
    IN  IF parent_commit = 0 THEN [r |-> r, res |-> "ReferenceLookupError", oid |-> 0]
        ELSE IF ~signature(r) THEN [r |-> moved, res |-> "SignatureError", oid |-> 0]
        ELSE [r |-> moved, res |-> "ok", oid |-> new]

\* the steps of commit that can fail, in the order the code takes them
commit_on(r, subject) ==
    IF ~signature(r) THEN [r |-> r, res |-> "SignatureError", oid |-> 0]
    ELSE
      LET oid == r.index
          parent_commit == find_last_commit(r)
      IN  IF parent_commit = 0
          THEN [r |-> r, res |-> "ReferenceLookupError", oid |-> 0]
          ELSE LET new == Len(r.commits) + 1
                   c == [parent |-> CommitParent(parent_commit),
                         msg |-> CommitMessage(subject), tree |-> oid]
               IN  [r |-> UpdateHead([r EXCEPT !.commits = Append(@, c)], new),
                    res |-> "ok", oid |-> new]

commit(subject) ==
    /\ pc = "idle"
    /\ IF repo = "none" THEN Panic("commit", subject)
       ELSE /\ Len(disk[repo].commits) < MaxCommits
            /\ LET out == commit_on(disk[repo], subject) IN
               /\ disk' = [disk EXCEPT ![repo] = out.r]
               /\ last' = Result("commit", subject, out.res, out.oid)
               /\ UNCHANGED <<repo, pc, Negotiation>>

(***************************************************************************)
(* The collaborator that writes the note into README.md.                   *)
(***************************************************************************)
write_note(v) ==
    /\ pc = "idle"
    /\ repo # "none"
    /\ Len(disk[repo].commits) > 0
    /\ disk[repo].worktree # v
    /\ disk' = [disk EXCEPT ![repo].worktree = v]
    /\ last' = Result("write_note", "none", "ok", 0)
    /\ UNCHANGED <<repo, pc, Negotiation>>

(***************************************************************************)
(* with_credentials: the credential callback                               *)
(***************************************************************************)
\* mutant: the username condition is looked at after the SSH-key method
UsernameCheckAfterSshKey(allowed, username) ==
    "USERNAME" \in allowed /\ "SSH_KEY" \notin allowed

\* if allowed.contains(git2::CredentialType::USERNAME)
UsernameCheck(allowed, username) == "USERNAME" \in allowed

\* mutants: a flag that is left false, so its method stays available
tried_sshkey_left == FALSE
tried_cred_helper_left == FALSE
tried_default_left == FALSE

\* the value each flag is given when its method is attempted
tried_sshkey_set == TRUE
tried_cred_helper_set == TRUE
tried_default_set == TRUE

Flags(s, h, d) == [sshkey |-> s, cred_helper |-> h, default |-> d]

\* the flags of the methods a challenge allows
AllowedMethods(allowed) ==
    (IF "SSH_KEY" \in allowed THEN {"sshkey"} ELSE {})
      \cup (IF "USER_PASS_PLAINTEXT" \in allowed THEN {"cred_helper"} ELSE {})
      \cup (IF "DEFAULT" \in allowed THEN {"default"} ELSE {})

\* mutant: the credential helper is looked at before the SSH key
credentials_helper_first(t, allowed, username, made) ==
    IF "USERNAME" \in allowed
    THEN [tried |-> t, kind |-> "MissingUsername", method |-> "none", reads |-> {}]
    ELSE IF "USER_PASS_PLAINTEXT" \in allowed /\ ~t.cred_helper
    THEN [tried |-> [t EXCEPT !.cred_helper = TRUE],
          kind |-> IF made THEN "cred" ELSE "CredError",
          method |-> "cred_helper", reads |-> {"cred_helper"}]
    ELSE IF "SSH_KEY" \in allowed /\ ~t.sshkey
    THEN [tried |-> [t EXCEPT !.sshkey = TRUE],
          kind |-> IF username = NoUser THEN "panic"
                   ELSE IF made THEN "cred" ELSE "CredError",
          method |-> "sshkey", reads |-> {"sshkey", "cred_helper"} \cap AllowedMethods(allowed)]
    ELSE IF "DEFAULT" \in allowed /\ ~t.default
    THEN [tried |-> [t EXCEPT !.default = TRUE],
          kind |-> IF made THEN "cred" ELSE "CredError",
          method |-> "default", reads |-> AllowedMethods(allowed)]
    ELSE [tried |-> t, kind |-> "AllAuthMethodsExhausted", method |-> "none",
          reads |-> AllowedMethods(allowed)]

\* One call of the closure.  t: the three flags before the call; made: whether
\* the git2::Cred constructor of the attempted method returns Ok.  The answer
\* holds the flags after the call, what is returned (kind), the method
\* attempted and the flags the conditions read (&& is short-circuit).
credentials(t, allowed, username, made) ==
    IF UsernameCheck(allowed, username)
    THEN [tried |-> t, kind |-> "MissingUsername", method |-> "none", reads |-> {}]
    ELSE IF "SSH_KEY" \in allowed /\ ~t.sshkey
    THEN [tried |-> [t EXCEPT !.sshkey = tried_sshkey_set],
          kind |-> IF username = NoUser THEN "panic"
                   ELSE IF made THEN "cred" ELSE "CredError",
          method |-> "sshkey",
          reads |-> {"sshkey"}]
    ELSE IF "USER_PASS_PLAINTEXT" \in allowed /\ ~t.cred_helper
    THEN [tried |-> [t EXCEPT !.cred_helper = tried_cred_helper_set],
          kind |-> IF made THEN "cred" ELSE "CredError",
          method |-> "cred_helper",
          reads |-> (IF "SSH_KEY" \in allowed THEN {"sshkey"} ELSE {})
                      \cup {"cred_helper"}]
    ELSE IF "DEFAULT" \in allowed /\ ~t.default
    THEN [tried |-> [t EXCEPT !.default = tried_default_set],
          kind |-> IF made THEN "cred" ELSE "CredError",
          method |-> "default",
          reads |-> (IF "SSH_KEY" \in allowed THEN {"sshkey"} ELSE {})
                      \cup (IF "USER_PASS_PLAINTEXT" \in allowed THEN {"cred_helper"} ELSE {})
                      \cup {"default"}]
    ELSE [tried |-> t, kind |-> "AllAuthMethodsExhausted", method |-> "none",
          reads |-> (IF "SSH_KEY" \in allowed THEN {"sshkey"} ELSE {})
                      \cup (IF "USER_PASS_PLAINTEXT" \in allowed THEN {"cred_helper"} ELSE {})
                      \cup (IF "DEFAULT" \in allowed THEN {"default"} ELSE {})]

(***************************************************************************)
(* Git::push                                                               *)
(***************************************************************************)
\* mutant: the flags outlive the push (fields of the handle, not locals)
InitialFlagsKept == Flags(tried_sshkey, tried_cred_helper, tried_default)

\* let mut tried_sshkey = false; ... : the flags a push starts with
InitialFlags == Flags(FALSE, FALSE, FALSE)

\* mutant: a remote is found although none is configured
FindRemoteAny(r) == TRUE

\* repo.find_remote("origin")
FindRemote(r) == r.origin

\* push up to the point where remote.push hands control to the transport
push(branch_name) ==
    /\ pc = "idle"
    /\ IF repo = "none" THEN Panic("push", branch_name)
       ELSE /\ tried_sshkey' = InitialFlags.sshkey
            /\ tried_cred_helper' = InitialFlags.cred_helper
            /\ tried_default' = InitialFlags.default
            /\ chal' = NoChallenge
            /\ hist' = [NoHist EXCEPT !.exhausted_before =
                          tried_sshkey /\ tried_cred_helper /\ tried_default]
            /\ IF FindRemote(disk[repo])
               THEN /\ pc' = "transport"
                    /\ push_branch' = branch_name
                    /\ last' = Result("push", branch_name, "running", 0)
               ELSE /\ pc' = "idle"
                    /\ push_branch' = "none"
                    /\ last' = Result("push", branch_name, "RemoteNotFound", 0)
            /\ UNCHANGED <<repo, disk>>

\* the transport calls the credential callback
challenge(S) ==
    /\ pc = "transport"
    /\ hist.n < MaxChallenges
    /\ \E c \in S :
         LET a == credentials(Flags(tried_sshkey, tried_cred_helper, tried_default),
                              c.allowed, c.username, c.made)
         IN  /\ tried_sshkey' = a.tried.sshkey
             /\ tried_cred_helper' = a.tried.cred_helper
             /\ tried_default' = a.tried.default
             /\ chal' = [allowed |-> c.allowed, username |-> c.username,
                         kind |-> a.kind, method |-> a.method]
             /\ hist' = [hist EXCEPT
                           !.n = @ + 1,
                           !.tries = IF a.method = "none" THEN @ ELSE Append(@, a.method),
                           !.reads = [f \in DOMAIN @ |->
                                        IF f \in a.reads THEN @[f] + 1 ELSE @[f]],
                           !.uniform = @ /\ c.allowed = AllMethods]
             /\ IF a.kind = "panic"
                THEN /\ pc' = "aborted"
                     /\ last' = Result("push", push_branch, "panic", 0)
                ELSE /\ pc' = "answered"
                     /\ last' = last
    /\ UNCHANGED <<repo, disk, push_branch>>

\* the remote rejects the credential and the transport asks again
transport_reject ==
    /\ pc = "answered"
    /\ chal.kind = "cred"
    /\ pc' = "transport"
    /\ UNCHANGED <<repo, disk, push_branch, tried_sshkey, tried_cred_helper,
                   tried_default, chal, hist, last>>

\* a transport that asks again although the callback returned an error
transport_retry ==
    /\ pc = "answered"
    /\ chal.kind \in {"MissingUsername", "CredError", "AllAuthMethodsExhausted"}
    /\ pc' = "transport"
    /\ hist' = [hist EXCEPT !.lenient = TRUE]
    /\ UNCHANGED <<repo, disk, push_branch, tried_sshkey, tried_cred_helper,
                   tried_default, chal, last>>

\* the error remote.push returns: the callback's error as it is, an
\* authentication error after a rejected credential, a transport error else
PushError ==
    IF pc = "answered" /\ chal.kind # "cred" THEN chal.kind
    ELSE IF pc = "answered" THEN "AuthenticationError"
    ELSE "PushError"

push_fail ==
    /\ pc \in {"transport", "answered"}
    /\ pc' = "idle"
    /\ last' = Result("push", push_branch, PushError, 0)
    /\ push_branch' = "none"
    /\ chal' = NoChallenge
    /\ hist' = NoHist
    /\ UNCHANGED <<repo, disk, tried_sshkey, tried_cred_helper, tried_default>>

\* mutant: every local branch is pushed (refs/heads/*:refs/heads/*)
UploadEveryBranch(r, name) == [r EXCEPT !.remote = r.refs]

\* the refspec refs/heads/<branch_name>:refs/heads/<branch_name>
UploadRefspec(r, name) ==
    [r EXCEPT !.remote = { p \in @ : p[1] # name } \cup { <<name, BranchTarget(r, name)>> }]

\* what remote.push(...)? returns once the remote has answered the update of
\* the reference.  callbacks holds the credentials callback only, no
\* push_update_reference: an update the remote refused is not reported, and
\* the call returns Ok as for an update it took
PushStatus(taken) == "ok"

\* the remote accepts the connection (the credential, or none asked for),
\* and takes or refuses the update of the reference
push_upload ==
    /\ \/ pc = "answered" /\ chal.kind = "cred"
       \/ pc = "transport" /\ hist.n = 0
    /\ pc' = "idle"
    /\ IF BranchExists(disk[repo], push_branch)
       THEN \E taken \in BOOLEAN :
            /\ disk' = IF taken
                       THEN [disk EXCEPT ![repo] = UploadRefspec(@, push_branch)]
                       ELSE disk
            /\ last' = Result("push", push_branch, PushStatus(taken), 0)
       ELSE /\ disk' = disk
            /\ last' = Result("push", push_branch, "PushError", 0)
    /\ push_branch' = "none"
    /\ chal' = NoChallenge
    /\ hist' = NoHist
    /\ UNCHANGED <<repo, tried_sshkey, tried_cred_helper, tried_default>>

Next ==
    \/ \E path \in Paths : init(path)
    \/ \E name \in BranchNames \cup InvalidNames : checkout_branch(name)
    \/ add
    \/ \E subject \in Subjects : commit(subject)
    \/ \E v \in Notes : write_note(v)
    \/ \E name \in BranchNames : push(name)
    \/ challenge(SshChallenges)
    \/ transport_reject
    \/ push_fail
    \/ push_upload

Spec == Init /\ [][Next]_vars

(***************************************************************************)
(* The credential negotiation alone: the handle is open on the repository  *)
(* of the tests, origin is configured, and the transport makes every       *)
(* challenge.                                                              *)
(***************************************************************************)
InitCred ==
    /\ repo = "p1"
    /\ disk = [p \in RepoPaths |->
                 IF p = "p1" THEN InitialRepo(TRUE, TRUE) ELSE EmptyRepo(TRUE, TRUE)]
    /\ pc = "idle"
    /\ push_branch = "none"
    /\ tried_sshkey = FALSE
    /\ tried_cred_helper = FALSE
    /\ tried_default = FALSE
    /\ chal = NoChallenge
    /\ hist = NoHist
    /\ last = [op |-> "init", arg |-> "p1", res |-> "ok", oid |-> 0, again |-> FALSE,
               pipe |-> NoPipe]

NextCred ==
    \/ \E name \in BranchNames : push(name)
    \/ challenge(AllChallenges)
    \/ transport_reject
    \/ transport_retry
    \/ push_fail
    \/ push_upload

SpecCred == InitCred /\ [][NextCred]_vars

(***************************************************************************)
(* Properties of the credential callback (checked under SpecCred).         *)
(***************************************************************************)
Methods == {"sshkey", "cred_helper", "default"}

\* the order in which a challenge that allows every method exhausts them
MethodOrder == <<"sshkey", "cred_helper", "default">>

\* how often method m was attempted in the push in progress
Attempts(m) == Cardinality({ i \in 1 .. Len(hist.tries) : hist.tries[i] = m })

\* the step is one call of the credential callback
ChallengeStep == pc = "transport" /\ hist'.n = hist.n + 1

\* C1: within one push each of the three methods (SSH key, credential helper,
\* default) is attempted at most once, whatever the challenges allow and
\* whatever became of the earlier attempts.
C1_AtMostOncePerMethod == \A m \in Methods : Attempts(m) <= 1

\* a later challenge allows SSH key again after the SSH-key attempt, and is
\* answered with something else
C1_Witness ==
    /\ pc = "answered"
    /\ hist.n >= 2
    /\ "SSH_KEY" \in chal.allowed /\ "USERNAME" \notin chal.allowed
    /\ chal.method # "sshkey"
    /\ Attempts("sshkey") = 1

\* the case of C2: every challenge so far allowed exactly the three methods,
\* and the transport asked again only after a credential the remote rejected
C2_Scenario == hist.uniform /\ ~hist.lenient /\ pc \in {"transport", "answered"}

\* C2 as stated: in that case AllAuthMethodsExhausted comes after exactly 3
\* invocations, and no method flag is consulted twice.
C2_NoFlagConsultedTwice ==
    C2_Scenario =>
      /\ (pc = "answered" /\ chal.kind = "AllAuthMethodsExhausted"
            => hist.n = Len(MethodOrder) + 1)
      /\ \A f \in Methods : hist.reads[f] <= 1

\* C2 (amended): in that case the invocation that returns
\* AllAuthMethodsExhausted is the fourth; the three before it attempt SSH key,
\* credential helper and default in this order, once each; no method is
\* attempted twice (the flags themselves are read again by later invocations).
C2_ThreeAttemptsThenExhausted ==
    (C2_Scenario /\ pc = "answered") =>
      /\ chal.kind = "AllAuthMethodsExhausted" <=> hist.n > Len(MethodOrder)
      /\ hist.tries = SubSeq(MethodOrder, 1,
                             IF hist.n > Len(MethodOrder) THEN Len(MethodOrder) ELSE hist.n)

\* the fourth invocation has returned AllAuthMethodsExhausted, after three
\* rejected credentials
C2_Witness ==
    /\ C2_Scenario /\ pc = "answered"
    /\ chal.kind = "AllAuthMethodsExhausted"
    /\ hist.n = 4
    /\ hist.tries = MethodOrder
    /\ hist.reads["sshkey"] = 4

\* C3: a challenge that signals "username required" and carries no username
\* is answered MissingUsername; no method is attempted, no flag is read and
\* the three flags stay as they were.
C3_MissingUsernameFirst ==
    [][ (ChallengeStep /\ "USERNAME" \in chal'.allowed /\ chal'.username = NoUser)
          => /\ chal'.kind = "MissingUsername"
             /\ chal'.method = "none"
             /\ pc' = "answered"
             /\ tried_sshkey' = tried_sshkey
             /\ tried_cred_helper' = tried_cred_helper
             /\ tried_default' = tried_default
             /\ hist'.tries = hist.tries
             /\ hist'.reads = hist.reads ]_vars

\* a later challenge, which also allows the untried SSH key, is answered
\* MissingUsername
C3_Witness ==
    /\ pc = "answered"
    /\ hist.n >= 2
    /\ chal.kind = "MissingUsername"
    /\ chal.username = NoUser
    /\ "SSH_KEY" \in chal.allowed
    /\ ~tried_sshkey /\ tried_cred_helper

(***************************************************************************)
(* Properties of the operations on the handle (checked under Spec).        *)
(***************************************************************************)
Opened == repo # "none"

\* the step is a call of the named operation
CheckoutStep == pc = "idle" /\ last'.op = "checkout_branch"
CommitStep == pc = "idle" /\ last'.op = "commit"
InitStep == pc = "idle" /\ last'.op = "init"
PushStep == pc = "idle" /\ last'.op = "push"

\* the branches called name
BranchesNamed(r, name) == { p \in r.refs : p[1] = name }

\* C4: checkout_branch is idempotent: on an open repository with at least
\* one commit, two calls with the same branch name leave exactly one branch
\* of the name and HEAD on refs/heads/<name> after each call; the second call
\* returns Ok and leaves the branch at its commit.
C4_TwiceSameName ==
    [][ ( /\ CheckoutStep /\ Opened
          /\ HeadOid(disk[repo]) # 0
          /\ last'.arg \in BranchNames ) =>
          /\ Cardinality(BranchesNamed(disk'[repo], last'.arg)) = 1
          /\ disk'[repo].head = last'.arg
          /\ (last.op = "checkout_branch" /\ last.arg = last'.arg) =>
               /\ last'.res = "ok"
               /\ disk'[repo].refs = disk[repo].refs ]_vars

\* what holds when no call meets a checkout conflict: after each successful
\* call there is exactly one branch of the name and HEAD is refs/heads/<name>;
\* a second call after a successful first one returns Ok and moves no branch
IdempotentAfterSuccess ==
    [][ (CheckoutStep /\ Opened) =>
          /\ last'.res = "ok" =>
               /\ Cardinality(BranchesNamed(disk'[repo], last'.arg)) = 1
               /\ disk'[repo].head = last'.arg
          /\ last'.again =>
               /\ last'.res = "ok"
               /\ disk'[repo].refs = disk[repo].refs ]_vars

\* the second of two calls checkout_branch("ideas") has returned Ok
IdempotentAfterSuccessWitness ==
    /\ last.op = "checkout_branch" /\ last.arg = "ideas"
    /\ last.again /\ last.res = "ok"
    /\ disk[repo].head = "ideas"
    /\ BranchTarget(disk[repo], "ideas") # BranchTarget(disk[repo], "main")

\* C5: after a successful checkout_branch(name) the branch exists and HEAD is
\* refs/heads/<name>; a branch that did not exist before the call points at
\* the commit HEAD resolved to before the call.
C5_CheckoutPostcondition ==
    [][ (CheckoutStep /\ Opened /\ last'.res = "ok") =>
          /\ BranchExists(disk'[repo], last'.arg)
          /\ disk'[repo].head = last'.arg
          /\ ~BranchExists(disk[repo], last'.arg) =>
               BranchTarget(disk'[repo], last'.arg) = HeadOid(disk[repo]) ]_vars

\* ideas was created by the call at the second commit, where main was: HEAD
\* was on main before the call and is on ideas after it
C5_Witness ==
    /\ last.op = "checkout_branch" /\ last.arg = "ideas" /\ last.res = "ok"
    /\ ~last.again
    /\ disk[repo].head = "ideas"
    /\ BranchTarget(disk[repo], "ideas") = 2
    /\ BranchTarget(disk[repo], "main") = 2

\* C6: a successful commit(subject) adds one commit whose single parent is
\* the commit HEAD resolved to before the call and whose message is subject;
\* HEAD resolves to it afterwards and its identifier is what is returned.
C6_CommitOnHead ==
    [][ (CommitStep /\ Opened /\ last'.res = "ok") =>
          LET r == disk[repo]
              r2 == disk'[repo]
          IN  /\ Len(r2.commits) = Len(r.commits) + 1
              /\ SubSeq(r2.commits, 1, Len(r.commits)) = r.commits
              /\ last'.oid = Len(r2.commits)
              /\ r2.commits[last'.oid].parent = HeadOid(r)
              /\ r2.commits[last'.oid].parent # 0
              /\ r2.commits[last'.oid].msg = last'.arg
              /\ r2.head = r.head
              /\ HeadOid(r2) = last'.oid ]_vars

\* add() and then commit(subject) on branch ideas: the new commit holds the
\* staged README.md and ideas points at it
C6_Witness ==
    /\ last.op = "commit" /\ last.res = "ok"
    /\ disk[repo].head = "ideas"
    /\ disk[repo].commits[last.oid].tree = disk[repo].index
    /\ disk[repo].index # 0
    /\ disk[repo].commits[last.oid].parent = 1
    /\ BranchTarget(disk[repo], "ideas") = last.oid

\* C7 as stated: commit on a repository with zero commits fails with
\* ReferenceLookupError, whether or not the identity is configured.
C7_ReferenceLookupErrorAlways ==
    (last.op = "commit" /\ Opened /\ last.res # "panic"
       /\ Len(disk[repo].commits) = 0)
      => last.res = "ReferenceLookupError"

\* C7 (amended): commit on a repository with zero commits fails, with
\* ReferenceLookupError when the identity is configured and with
\* SignatureError when it is not (the signature is resolved before HEAD); no
\* commit is created and HEAD is not moved.
C7_CommitOnEmptyFails ==
    [][ (CommitStep /\ Opened /\ Len(disk[repo].commits) = 0) =>
          /\ last'.res = IF disk[repo].identity THEN "ReferenceLookupError"
                         ELSE "SignatureError"
          /\ disk' = disk ]_vars

\* commit on the empty repository, identity configured
C7_Witness ==
    /\ last.op = "commit" /\ last.res = "ReferenceLookupError"
    /\ Opened
    /\ Len(disk[repo].commits) = 0
    /\ disk[repo].identity
    /\ HeadOid(disk[repo]) = 0

\* C8 as stated: an operation on a handle that was never opened returns the
\* error NotInitialized and does not abort the process.
C8_NotInitializedReturned ==
    (last.op \in {"checkout_branch", "add", "commit", "push"} /\ ~Opened)
      => (last.res = "NotInitialized" /\ pc # "aborted")

\* C9: init(path) returns Ok and opens path exactly when path holds a
\* repository; otherwise it returns RepoAccessError, creates no repository
\* and leaves the handle as it was.
C9_OpenOnlyValid ==
    [][ InitStep =>
          /\ last'.res = "ok" <=> last'.arg \in DOMAIN disk
          /\ last'.res = "ok" => repo' = last'.arg
          /\ last'.res # "ok" => (last'.res = "RepoAccessError" /\ repo' = repo)
          /\ disk' = disk ]_vars

\* a failed init on a handle that was never opened
C9_Witness ==
    /\ last.op = "init" /\ last.arg = "nowhere"
    /\ last.res = "RepoAccessError"
    /\ repo = "none"

\* C10: push on an open repository without a remote "origin" returns
\* RemoteNotFound; the callback answers no challenge, and the remote, HEAD,
\* the branches and the index stay as they were.
C10_PushWithoutOrigin ==
    [][ (PushStep /\ Opened /\ ~disk[repo].origin) =>
          /\ last'.res = "RemoteNotFound"
          /\ pc' = "idle"
          /\ hist'.n = 0 /\ chal' = NoChallenge
          /\ disk' = disk ]_vars

\* push("ideas") after a commit on ideas, without origin
C10_Witness ==
    /\ last.op = "push" /\ last.arg = "ideas" /\ last.res = "RemoteNotFound"
    /\ Opened
    /\ ~disk[repo].origin
    /\ disk[repo].head = "ideas"
    /\ BranchTarget(disk[repo], "ideas") = 2

\* the references of the remote called name
RemoteNamed(r, name) == { p \in r.remote : p[1] = name }

\* C11: end to end.  From an open repository whose only commit is the
\* initial one, checkout_branch(b), add(), commit(s), push(b) with the
\* connection accepted end with the remote's refs/heads/<b> at the new
\* commit, which local HEAD (refs/heads/<b>) resolves to and whose parent is
\* the initial commit; the push updates no other reference of the remote.
C11_EndToEnd ==
    [][ (last.pipe.stage = "pushing" /\ last'.pipe.stage = "pushed") =>
          LET b == last'.pipe.branch
              r == disk[repo]
              r2 == disk'[repo]
              new == Len(r2.commits)
          IN  /\ new = 2
              /\ r2.commits[new].parent = 1
              /\ r2.commits[new].msg \in Subjects
              /\ r2.head = b
              /\ HeadOid(r2) = new
              /\ RemoteNamed(r2, b) = { <<b, new>> }
              /\ \A other \in BranchNames \ {b} :
                   RemoteNamed(r2, other) = RemoteNamed(r, other)
              /\ [r2 EXCEPT !.remote = r.remote] = r ]_vars

\* what holds of the run whether the remote took the update or refused it:
\* the local part, and no reference of the remote but refs/heads/<b> moves,
\* which is at the new commit when it moved
EndToEndLocal ==
    [][ (last.pipe.stage = "pushing" /\ last'.pipe.stage = "pushed") =>
          LET b == last'.pipe.branch
              r == disk[repo]
              r2 == disk'[repo]
              new == Len(r2.commits)
          IN  /\ new = 2
              /\ r2.commits[new].parent = 1
              /\ r2.head = b
              /\ HeadOid(r2) = new
              /\ RemoteNamed(r2, b) \in { RemoteNamed(r, b), { <<b, new>> } }
              /\ \A other \in BranchNames \ {b} :
                   RemoteNamed(r2, other) = RemoteNamed(r, other)
              /\ [r2 EXCEPT !.remote = r.remote] = r ]_vars

\* the run on branch ideas has ended with the update taken, after the
\* SSH-key credential was accepted, while main had been pushed before
EndToEndTaken ==
    /\ last.pipe = [stage |-> "pushed", branch |-> "ideas"]
    /\ last.op = "push" /\ last.res = "ok"
    /\ tried_sshkey
    /\ disk[repo].remote = { <<"ideas", 2>>, <<"main", 1>> }

(***************************************************************************)
(* Further properties of the credential callback (checked under SpecCred). *)
(***************************************************************************)
\* the place of a method in the chain of the callback
Rank(m) == CHOOSE i \in 1 .. Len(MethodOrder) : MethodOrder[i] = m

\* C12 as stated: for every sequence of challenges the attempts of one push
\* come in the order SSH key, credential helper, default.
C12_AttemptsInOrder ==
    \A i, j \in 1 .. Len(hist.tries) :
      i < j => Rank(hist.tries[i]) < Rank(hist.tries[j])

\* C12 (amended): the order is that of one challenge: a challenge attempts a
\* method only when every method before it in the order SSH key, credential
\* helper, default is not allowed by this challenge or was tried before it.
\* A challenge that allows less can make a later method come first.
C12_OrderWithinChallenge ==
    [][ (ChallengeStep /\ chal'.method # "none") =>
          \A h \in Methods :
            Rank(h) < Rank(chal'.method) =>
              \/ h \notin AllowedMethods(chal'.allowed)
              \/ Flags(tried_sshkey, tried_cred_helper, tried_default)[h] ]_vars

\* default is attempted by a challenge that allows the SSH key, tried
\* before, and not the credential helper, still untried
C12_Witness ==
    /\ pc = "answered"
    /\ chal.method = "default"
    /\ "SSH_KEY" \in chal.allowed /\ "USER_PASS_PLAINTEXT" \notin chal.allowed
    /\ hist.tries = <<"sshkey", "default">>
    /\ ~tried_cred_helper

\* the methods attempted in the push in progress
Tried == { hist.tries[i] : i \in 1 .. Len(hist.tries) }

\* C13: the three flags belong to one push: every push starts with all three
\* false, so during a push a flag is true exactly when its method was
\* attempted in this push, whatever earlier pushes did.
C13_FlagsScopedToPush ==
    pc \in {"transport", "answered"} =>
      /\ tried_sshkey <=> "sshkey" \in Tried
      /\ tried_cred_helper <=> "cred_helper" \in Tried
      /\ tried_default <=> "default" \in Tried

\* an earlier push exhausted the three methods, and this push attempts the
\* SSH key again
C13_Witness ==
    /\ pc = "answered"
    /\ hist.exhausted_before
    /\ chal.method = "sshkey"
    /\ hist.tries = <<"sshkey">>
    /\ tried_sshkey /\ ~tried_cred_helper /\ ~tried_default

\* the transport of C14: it asks again only after a credential the remote
\* rejected, and stops at the first error the callback returns
StrictTransport == ~hist.lenient /\ pc \in {"transport", "answered"}

\* C14: under such a transport every push reaches a final success or
\* failure after at most three credential attempts: the push call is never
\* aborted, every invocation of the callback but the last has made an
\* attempt, and the fourth invocation returns an error, at which the
\* transport stops.
C14_PushReachesResult ==
    ~hist.lenient =>
      /\ pc # "aborted"
      /\ Len(hist.tries) <= Len(MethodOrder)
      /\ hist.n <= Len(hist.tries) + 1
      /\ (pc = "answered" /\ hist.n = Len(MethodOrder) + 1) => chal.kind # "cred"

\* what holds of the count alone, for the invocations that return: at most
\* three attempts, at most four invocations, the fourth an error
ChainBounded ==
    StrictTransport =>
      /\ Len(hist.tries) <= Len(MethodOrder)
      /\ hist.n <= Len(hist.tries) + 1
      /\ hist.n <= Len(MethodOrder) + 1
      /\ (pc = "answered" /\ hist.n = Len(MethodOrder) + 1) => chal.kind # "cred"

\* challenges that allow one method each, in the order default, credential
\* helper, SSH key: three rejected credentials, then the error that ends it
ChainBoundedWitness ==
    /\ StrictTransport /\ pc = "answered"
    /\ hist.n = 4
    /\ hist.tries = <<"default", "cred_helper", "sshkey">>
    /\ chal.kind = "AllAuthMethodsExhausted"
    /\ chal.allowed = {"SSH_KEY"}

\* C15: checkout_branch swallows one creation failure only, "branch already
\* exists".  Any other creation failure is returned as BranchCreateError and
\* nothing after it runs: working tree, index, HEAD and branches are as
\* before.  When HEAD resolves to no commit the call returns
\* ReferenceLookupError and no branch has been created.
C15_OnlyExistsSwallowed ==
    [][ (CheckoutStep /\ Opened) =>
          LET r == disk[repo]
              code == BranchCreate(r, last'.arg)
          IN  /\ HeadOid(r) = 0 =>
                   /\ last'.res = "ReferenceLookupError"
                   /\ disk' = disk
              /\ (HeadOid(r) # 0 /\ code \notin {"ok", "Exists"}) =>
                   /\ last'.res = "BranchCreateError"
                   /\ disk' = disk
              /\ (HeadOid(r) # 0 /\ code = "Exists") =>
                   last'.res \in {"ok", "CheckoutError"}
              /\ last'.res = "BranchCreateError" =>
                   (HeadOid(r) # 0 /\ code \notin {"ok", "Exists"}) ]_vars

\* a name that is no reference name was refused on a repository with two
\* branches, HEAD on ideas and a changed README.md: all of it still there
C15_Witness ==
    /\ Opened
    /\ last.op = "checkout_branch" /\ last.arg \in InvalidNames
    /\ last.res = "BranchCreateError"
    /\ disk[repo].head = "ideas"
    /\ ~BranchExists(disk[repo], last.arg)
    /\ disk[repo].worktree # TreeOf(disk[repo], HeadOid(disk[repo]))

\* C16: a commit that returns an error leaves HEAD and every branch where
\* they were; a commit step moves a reference only when it returns Ok, and
\* then it is the branch HEAD names, moved to the commit returned.
C16_FailedCommitKeepsHead ==
    [][ (CommitStep /\ Opened) =>
          LET r == disk[repo]
              r2 == disk'[repo]
          IN  /\ last'.res # "ok" =>
                   /\ r2.refs = r.refs
                   /\ r2.head = r.head
                   /\ HeadOid(r2) = HeadOid(r)
              /\ r2.refs # r.refs =>
                   /\ last'.res = "ok"
                   /\ r2.head = r.head
                   /\ HeadOid(r2) = last'.oid
                   /\ \A p \in r.refs : p[1] # r.head => p \in r2.refs ]_vars

\* no identity configured: the commit of a staged README.md on ideas was
\* refused, and ideas and main are still at the first commit
C16_Witness ==
    /\ Opened
    /\ last.op = "commit" /\ last.res = "SignatureError"
    /\ disk[repo].head = "ideas"
    /\ disk[repo].index # TreeOf(disk[repo], HeadOid(disk[repo]))
    /\ BranchTarget(disk[repo], "ideas") = 1
    /\ BranchTarget(disk[repo], "main") = 1

\* C17: a challenge that signals that a username is required, and carries a
\* username, is not answered MissingUsername.
C17_UsernameSuppliedFallsThrough ==
    (pc = "answered" /\ "USERNAME" \in chal.allowed /\ chal.username # NoUser)
        => chal.kind # "MissingUsername"

\* C18: a handle is never re-opened: once it holds a repository, no init
\* call changes the repository it holds.
C18_NeverReopened ==
    [][ (InitStep /\ Opened) => repo' = repo ]_vars

\* C18, amended: the repository the handle holds changes only in a
\* successful init, which replaces it by the one at the path given, also when
\* the handle held another; and every step changes no other repository than
\* the one the handle holds.
C18_ReopenReplaces ==
    [][ /\ repo' # repo => (InitStep /\ last'.res = "ok")
        /\ (InitStep /\ last'.res = "ok") => repo' = last'.arg
        /\ (Opened /\ repo' = repo) =>
             \A p \in RepoPaths \ {repo} : disk'[p] = disk[p] ]_vars

\* the handle made a commit in p1 and was then opened on p2
C18_Witness ==
    /\ last.op = "init" /\ last.arg = "p2" /\ last.res = "ok"
    /\ repo = "p2"
    /\ Len(disk["p1"].commits) = 2
    /\ Len(disk["p2"].commits) = 0

\* C19: every challenge returns a credential or an error to the transport;
\* a challenge that allows the SSH key, does not ask for a username and
\* carries none, with the SSH-key flag false, sets the flag and returns the
\* outcome of the SSH-key attempt.
C19_EveryChallengeReturns ==
    [][ ChallengeStep =>
          /\ pc' = "answered"
          /\ chal'.kind \in {"cred", "CredError", "MissingUsername",
                             "AllAuthMethodsExhausted"}
          /\ ( /\ "SSH_KEY" \in chal'.allowed
               /\ "USERNAME" \notin chal'.allowed
               /\ chal'.username = NoUser
               /\ ~tried_sshkey )
             => /\ tried_sshkey'
                /\ chal'.method = "sshkey"
                /\ chal'.kind \in {"cred", "CredError"} ]_vars

\* C20: within a push a flag never goes back to false.  A challenge sets at
\* most one flag, that of the method it attempts, and sets it; the flag of a
\* method the challenge does not allow is left as it is, so that a later
\* challenge that allows it attempts it.  The answer is
\* AllAuthMethodsExhausted exactly when the challenge is not failed for the
\* username and no method is both allowed by it and untried.
C20_FlagsPerChallenge ==
    [][ LET T == Flags(tried_sshkey, tried_cred_helper, tried_default)
            T2 == Flags(tried_sshkey', tried_cred_helper', tried_default')
            open == { m \in AllowedMethods(chal'.allowed) : ~T[m] }
        IN  /\ (pc \in {"transport", "answered"}) =>
                 \A m \in Methods : T[m] => T2[m]
            /\ ChallengeStep =>
                 /\ \A m \in Methods :
                      /\ T2[m] # T[m] => chal'.method = m
                      /\ chal'.method = m => (~T[m] /\ T2[m] /\ m \in open)
                      /\ m \notin AllowedMethods(chal'.allowed) => T2[m] = T[m]
                 /\ chal'.kind = "AllAuthMethodsExhausted" <=>
                      (chal'.kind # "MissingUsername" /\ open = {})
                 /\ (chal'.kind # "MissingUsername" /\ open # {}) =>
                      chal'.method \in open ]_vars

\* the first challenge allowed the default method only; the SSH key kept its
\* slot and the second challenge, which allows it, attempts it
C20_Witness ==
    /\ pc = "answered"
    /\ hist.n = 2
    /\ hist.tries = <<"default", "sshkey">>
    /\ chal.method = "sshkey" /\ chal.kind = "cred"
    /\ tried_sshkey /\ ~tried_cred_helper /\ tried_default
====
